---------------------------- MODULE Spec2Model ----------------------------
(***************************************************************************)
(* The in-place umlaut transformations of `impl UmlautsInplaceExt for      *)
(* [u8]` (src/src/lib.rs), one call of one of the five methods on one      *)
(* buffer, followed loop iteration by loop iteration.                      *)
(*                                                                         *)
(* Bytes are the integers 0..255, written in hexadecimal as in the source. *)
(* A buffer is a sequence of bytes; the source indexes it from 0, so       *)
(* self[k] is At(b, k) = b[k + 1].                                         *)
(***************************************************************************)
EXTENDS Integers, Sequences, FiniteSets, TLC

\* Number of characters of a generated buffer of supported text.
MaxChars == 3

\* Number of bytes of a generated buffer of arbitrary bytes.
MaxLen == 4

\* usize arithmetic is modular.  The model keeps 16 bits of it (the smallest
\* pointer width Rust supports): all that matters below is that 0 - 1 wraps
\* to a value larger than every buffer length.
UsizeModulus == 2 ^ 16

wrapping_sub(a, b) == (a - b + UsizeModulus) % UsizeModulus

\* Option<T>
None == << >>
Some(x) == << x >>

At(b, k) == b[k + 1]
Put(b, k, v) == [b EXCEPT ![k + 1] = v]
InBounds(b, k) == k >= 0 /\ k < Len(b)

Ops == {"lowercase", "uppercase", "to_ascii", "to_lowercase_ascii",
        "to_uppercase_ascii"}

-----------------------------------------------------------------------------
(* u8::to_ascii_lowercase / u8::make_ascii_lowercase and their mirrors.     *)

to_ascii_lowercase(c) == IF c \in \h41 .. \h5A THEN c + \h20 ELSE c

to_ascii_uppercase(c) == IF c \in \h61 .. \h7A THEN c - \h20 ELSE c

-----------------------------------------------------------------------------
(* `self.len() - 1`, the bound of every loop and of the memchr haystack.    *)
(* With overflow checks (a debug build) the subtraction panics on an empty  *)
(* buffer; without them (a release build) it wraps.                         *)

\* (off by one: the bound is the length itself)
len_minus_1_is_len(b) == Len(b)

len_minus_1(b) == wrapping_sub(Len(b), 1)

len_minus_1_overflows(b) == Len(b) < 1

\* `while i < self.len() - 1`: where control goes next, for each build.
while_cond(b, k, overflow_checks) ==
    IF overflow_checks /\ len_minus_1_overflows(b) THEN "panicked"
    ELSE IF k < len_minus_1(b) THEN "body"
    ELSE "exit"

\* What one execution of a loop body leaves: the buffer, the index, the
\* indices of the buffer it read or wrote (or tried to), and where control
\* goes: back to the loop test, out of the function, or into a panic.
Outcome(b, k, t, n) == [buf |-> b, i |-> k, touched |-> t, next |-> n]

-----------------------------------------------------------------------------
(* make_utf8_umlauts_lowercase / make_utf8_umlauts_uppercase                *)

\* (the umlaut arms write the lead byte instead of the trailing byte)
lowercase_match_writes_lead(b, k) ==
    LET c == At(b, k)
        d == At(b, k + 1)
    IN  CASE c \in \h41 .. \h5A      -> Put(b, k, to_ascii_lowercase(c))
          [] c = \hC3 /\ d = \h84    -> Put(b, k, \hA4)
          [] c = \hC3 /\ d = \h96    -> Put(b, k, \hB6)
          [] c = \hC3 /\ d = \h9C    -> Put(b, k, \hBC)
          [] OTHER                   -> b

lowercase_match(b, k) ==
    LET c == At(b, k)
        d == At(b, k + 1)
    IN  CASE c \in \h41 .. \h5A      -> Put(b, k, to_ascii_lowercase(c))
          [] c = \hC3 /\ d = \h84    -> Put(b, k + 1, \hA4)
          [] c = \hC3 /\ d = \h96    -> Put(b, k + 1, \hB6)
          [] c = \hC3 /\ d = \h9C    -> Put(b, k + 1, \hBC)
          [] OTHER                   -> b

lowercase_body(b, k) ==
    IF ~InBounds(b, k) THEN Outcome(b, k, {k}, "panicked")
    ELSE IF ~InBounds(b, k + 1) THEN Outcome(b, k, {k, k + 1}, "panicked")
    ELSE Outcome(lowercase_match(b, k), k + 1, {k, k + 1}, "loop")

\* (the arms of a-umlaut and o-umlaut write each other's byte)
uppercase_match_swapped(b, k) ==
    LET c == At(b, k)
        d == At(b, k + 1)
    IN  CASE c \in \h61 .. \h7A      -> Put(b, k, to_ascii_uppercase(c))
          [] c = \hC3 /\ d = \hA4    -> Put(b, k + 1, \h96)
          [] c = \hC3 /\ d = \hB6    -> Put(b, k + 1, \h84)
          [] c = \hC3 /\ d = \hBC    -> Put(b, k + 1, \h9C)
          [] OTHER                   -> b

uppercase_match(b, k) ==
    LET c == At(b, k)
        d == At(b, k + 1)
    IN  CASE c \in \h61 .. \h7A      -> Put(b, k, to_ascii_uppercase(c))
          [] c = \hC3 /\ d = \hA4    -> Put(b, k + 1, \h84)
          [] c = \hC3 /\ d = \hB6    -> Put(b, k + 1, \h96)
          [] c = \hC3 /\ d = \hBC    -> Put(b, k + 1, \h9C)
          [] OTHER                   -> b

uppercase_body(b, k) ==
    IF ~InBounds(b, k) THEN Outcome(b, k, {k}, "panicked")
    ELSE IF ~InBounds(b, k + 1) THEN Outcome(b, k, {k, k + 1}, "panicked")
    ELSE Outcome(uppercase_match(b, k), k + 1, {k, k + 1}, "loop")

\* (the last byte is left as it is)
lowercase_last_skipped(b) == Outcome(b, 0, {}, "done")

\* `if let Some(c) = self.last_mut() { c.make_ascii_lowercase() }`
lowercase_last(b) ==
    IF Len(b) = 0 THEN Outcome(b, 0, {}, "done")
    ELSE Outcome(Put(b, Len(b) - 1, to_ascii_lowercase(At(b, Len(b) - 1))),
                 0, {Len(b) - 1}, "done")

uppercase_last(b) ==
    IF Len(b) = 0 THEN Outcome(b, 0, {}, "done")
    ELSE Outcome(Put(b, Len(b) - 1, to_ascii_uppercase(At(b, Len(b) - 1))),
                 0, {Len(b) - 1}, "done")

-----------------------------------------------------------------------------
(* make_utf8_umlauts_to_ascii                                               *)

\* memchr::memchr(needle, haystack): the index of the first occurrence.
memchr(needle, haystack) ==
    IF \E k \in 1 .. Len(haystack) : haystack[k] = needle
    THEN Some(CHOOSE k \in 0 .. Len(haystack) - 1 :
                  /\ haystack[k + 1] = needle
                  /\ \A j \in 0 .. k - 1 : haystack[j + 1] # needle)
    ELSE None

\* (the uppercase umlauts get the lowercase digraphs)
to_ascii_replacement_all_lower(t) ==
    CASE t = \hA4 -> Some(<<\h61, \h65>>)
      [] t = \hB6 -> Some(<<\h6F, \h65>>)
      [] t = \hBC -> Some(<<\h75, \h65>>)
      [] t = \h84 -> Some(<<\h61, \h65>>)
      [] t = \h96 -> Some(<<\h6F, \h65>>)
      [] t = \h9C -> Some(<<\h75, \h65>>)
      [] t = \h9F -> Some(<<\h73, \h73>>)
      [] OTHER    -> None

to_ascii_replacement(t) ==
    CASE t = \hA4 -> Some(<<\h61, \h65>>)   \* ae
      [] t = \hB6 -> Some(<<\h6F, \h65>>)   \* oe
      [] t = \hBC -> Some(<<\h75, \h65>>)   \* ue
      [] t = \h84 -> Some(<<\h41, \h65>>)   \* Ae
      [] t = \h96 -> Some(<<\h4F, \h65>>)   \* Oe
      [] t = \h9C -> Some(<<\h55, \h65>>)   \* Ue
      [] t = \h9F -> Some(<<\h73, \h73>>)   \* ss
      [] OTHER    -> None

\* The haystack `&self[..self.len() - 1]`; taking it panics when the end
\* lies past the buffer (an empty buffer in a release build).
to_ascii_body(b, k) ==
    IF len_minus_1(b) > Len(b) THEN Outcome(b, k, {}, "panicked")
    ELSE
    LET haystack == SubSeq(b, 1, len_minus_1(b))
        found    == memchr(\hC3, haystack)
    IN  IF found = None
        THEN Outcome(b, k, 0 .. Len(haystack) - 1, "done")
        ELSE
        LET next_i == found[1]
            read   == 0 .. next_i + 1
        IN  IF ~InBounds(b, next_i + 1) THEN Outcome(b, k, read, "panicked")
            ELSE
            LET replacement == to_ascii_replacement(At(b, next_i + 1))
            IN  IF replacement # None
                THEN Outcome(Put(Put(b, next_i, replacement[1][1]),
                                 next_i + 1, replacement[1][2]),
                             next_i + 1, read, "loop")
                ELSE Outcome(b, next_i + 2, read, "loop")

-----------------------------------------------------------------------------
(* make_utf8_umlauts_to_lowercase_ascii / make_utf8_umlauts_to_uppercase_ascii *)

\* (the uppercase umlauts keep their capital, as in make_utf8_umlauts_to_ascii)
to_lowercase_ascii_replacement_keeps_case(t) ==
    CASE t = \hA4 -> Some(<<\h61, \h65>>)
      [] t = \hB6 -> Some(<<\h6F, \h65>>)
      [] t = \hBC -> Some(<<\h75, \h65>>)
      [] t = \h84 -> Some(<<\h41, \h65>>)
      [] t = \h96 -> Some(<<\h4F, \h65>>)
      [] t = \h9C -> Some(<<\h55, \h65>>)
      [] t = \h9F -> Some(<<\h73, \h73>>)
      [] OTHER    -> None

to_lowercase_ascii_replacement(t) ==
    CASE t = \hA4 -> Some(<<\h61, \h65>>)   \* ae
      [] t = \hB6 -> Some(<<\h6F, \h65>>)   \* oe
      [] t = \hBC -> Some(<<\h75, \h65>>)   \* ue
      [] t = \h84 -> Some(<<\h61, \h65>>)   \* ae
      [] t = \h96 -> Some(<<\h6F, \h65>>)   \* oe
      [] t = \h9C -> Some(<<\h75, \h65>>)   \* ue
      [] t = \h9F -> Some(<<\h73, \h73>>)   \* ss
      [] OTHER    -> None

to_lowercase_ascii_body(b, k) ==
    IF ~InBounds(b, k) THEN Outcome(b, k, {k}, "panicked")
    ELSE IF At(b, k) = \hC3
    THEN IF ~InBounds(b, k + 1) THEN Outcome(b, k, {k, k + 1}, "panicked")
         ELSE
         LET replacement == to_lowercase_ascii_replacement(At(b, k + 1))
         IN  IF replacement # None
             THEN Outcome(Put(Put(b, k, replacement[1][1]),
                              k + 1, replacement[1][2]),
                          k + 1, {k, k + 1}, "loop")
             ELSE Outcome(b, k + 2, {k, k + 1}, "loop")
    ELSE Outcome(Put(b, k, to_ascii_lowercase(At(b, k))), k + 1, {k}, "loop")

\* (the table of make_utf8_umlauts_to_lowercase_ascii, copied unchanged)
to_uppercase_ascii_replacement_lowercase(t) ==
    CASE t = \hA4 -> Some(<<\h61, \h65>>)
      [] t = \hB6 -> Some(<<\h6F, \h65>>)
      [] t = \hBC -> Some(<<\h75, \h65>>)
      [] t = \h84 -> Some(<<\h61, \h65>>)
      [] t = \h96 -> Some(<<\h6F, \h65>>)
      [] t = \h9C -> Some(<<\h75, \h65>>)
      [] t = \h9F -> Some(<<\h73, \h73>>)
      [] OTHER    -> None

to_uppercase_ascii_replacement(t) ==
    CASE t = \hA4 -> Some(<<\h41, \h45>>)   \* AE
      [] t = \hB6 -> Some(<<\h4F, \h45>>)   \* OE
      [] t = \hBC -> Some(<<\h55, \h45>>)   \* UE
      [] t = \h84 -> Some(<<\h41, \h45>>)   \* AE
      [] t = \h96 -> Some(<<\h4F, \h45>>)   \* OE
      [] t = \h9C -> Some(<<\h55, \h45>>)   \* UE
      [] t = \h9F -> Some(<<\h53, \h53>>)   \* SS
      [] OTHER    -> None

to_uppercase_ascii_body(b, k) ==
    IF ~InBounds(b, k) THEN Outcome(b, k, {k}, "panicked")
    ELSE IF At(b, k) = \hC3
    THEN IF ~InBounds(b, k + 1) THEN Outcome(b, k, {k, k + 1}, "panicked")
         ELSE
         LET replacement == to_uppercase_ascii_replacement(At(b, k + 1))
         IN  IF replacement # None
             THEN Outcome(Put(Put(b, k, replacement[1][1]),
                              k + 1, replacement[1][2]),
                          k + 1, {k, k + 1}, "loop")
             ELSE Outcome(b, k + 2, {k, k + 1}, "loop")
    ELSE Outcome(Put(b, k, to_ascii_uppercase(At(b, k))), k + 1, {k}, "loop")

-----------------------------------------------------------------------------
(* Dispatch on the method called.                                           *)

Body(o, b, k) ==
    CASE o = "lowercase"          -> lowercase_body(b, k)
      [] o = "uppercase"          -> uppercase_body(b, k)
      [] o = "to_ascii"           -> to_ascii_body(b, k)
      [] o = "to_lowercase_ascii" -> to_lowercase_ascii_body(b, k)
      [] o = "to_uppercase_ascii" -> to_uppercase_ascii_body(b, k)

\* What follows the loop: the fold of the last byte, or nothing.
AfterLoop(o, b) ==
    CASE o \in {"lowercase", "to_lowercase_ascii"} -> lowercase_last(b)
      [] o \in {"uppercase", "to_uppercase_ascii"} -> uppercase_last(b)
      [] o = "to_ascii"                            -> Outcome(b, 0, {}, "done")

\* The result of a whole call: how it ends and the buffer it leaves.  A call
\* still in its loop after `fuel` iterations is reported as "running" (a
\* call that returns makes fewer than Len(b) + 2 iterations).
Result(s, b) == [status |-> s, buf |-> b]

RECURSIVE RunFrom(_, _, _, _)
RunFrom(o, b, k, fuel) ==
    IF fuel = 0 THEN Result("running", b)
    ELSE IF len_minus_1_overflows(b) THEN Result("panicked", b)
    ELSE IF k < len_minus_1(b)
    THEN LET r == Body(o, b, k)
         IN  CASE r.next = "loop"     -> RunFrom(o, r.buf, r.i, fuel - 1)
               [] r.next = "done"     -> Result("returned", r.buf)
               [] r.next = "panicked" -> Result("panicked", r.buf)
    ELSE Result("returned", AfterLoop(o, b).buf)

Run(o, b) == RunFrom(o, b, 0, Len(b) + 2)

-----------------------------------------------------------------------------
(* The inputs.                                                              *)

AsciiChars == {<<c>> : c \in 0 .. \h7F}
Umlauts    == {<<\hC3, t>> : t \in {\hA4, \hB6, \hBC, \h84, \h96, \h9C}}
SharpS     == {<<\hC3, \h9F>>}
CapitalSharpS == {<<\hE1, \hBA, \h9E>>}

\* b is a concatenation of characters of `chars`.
RECURSIVE Decodes(_, _)
Decodes(b, chars) ==
    \/ b = << >>
    \/ \E n \in 1 .. Len(b) :
          /\ SubSeq(b, 1, n) \in chars
          /\ Decodes(SubSeq(b, n + 1, Len(b)), chars)

\* The characters the generated text is made of: an uppercase letter, a
\* lowercase letter, a non-letter, and every supported code point.
SampleChars == {<<\h41>>, <<\h7A>>, <<\h20>>} \cup Umlauts \cup SharpS
                  \cup CapitalSharpS

RECURSIVE TextsUpTo(_)
TextsUpTo(n) ==
    IF n = 0 THEN {<< >>}
    ELSE LET shorter == TextsUpTo(n - 1)
         IN  shorter \cup {t \o c : t \in shorter, c \in SampleChars}

\* The bytes arbitrary buffers are made of: letters, the lead byte, a
\* trailing byte of the replacement table (0xA4), one outside it (0xA9).
SampleBytes == {\h41, \h7A, \hC3, \hA4, \hA9}

RECURSIVE BytesUpTo(_)
BytesUpTo(n) ==
    IF n = 0 THEN {<< >>}
    ELSE LET shorter == BytesUpTo(n - 1)
         IN  shorter \cup {Append(t, c) : t \in shorter, c \in SampleBytes}

Inputs == TextsUpTo(MaxChars) \cup BytesUpTo(MaxLen)

-----------------------------------------------------------------------------
(* One call.                                                                *)

VARIABLES
    input,      \* the buffer as the caller passed it
    op,         \* the method called
    buf,        \* self
    i,          \* the loop index
    pc,         \* "loop": at the loop test; "body"; "last": past the loop;
                \* "done": returned; "panicked"
    touched     \* the indices of self that the last loop body (or the fold
                \* of the last byte) read or wrote, or tried to

vars == <<input, op, buf, i, pc, touched>>

Init ==
    /\ input \in Inputs
    /\ op \in Ops
    /\ buf = input
    /\ i = 0
    /\ pc = "loop"
    /\ touched = {}

\* `while i < self.len() - 1`
While(o) ==
    /\ op = o
    /\ pc = "loop"
    /\ \E overflow_checks \in BOOLEAN :
          LET c == while_cond(buf, i, overflow_checks)
          IN  pc' = CASE c = "body" -> "body"
                      [] c = "panicked" -> "panicked"
                      [] c = "exit" -> IF o = "to_ascii" THEN "done" ELSE "last"
    /\ UNCHANGED <<input, op, buf, i, touched>>

Iterate(o) ==
    /\ op = o
    /\ pc = "body"
    /\ LET r == Body(o, buf, i)
       IN  /\ buf' = r.buf
           /\ i' = r.i
           /\ touched' = r.touched
           /\ pc' = r.next
    /\ UNCHANGED <<input, op>>

Last(o) ==
    /\ op = o
    /\ pc = "last"
    /\ LET r == AfterLoop(o, buf)
       IN  /\ buf' = r.buf
           /\ touched' = r.touched
           /\ pc' = r.next
    /\ UNCHANGED <<input, op, i>>

make_utf8_umlauts_lowercase ==
    While("lowercase") \/ Iterate("lowercase") \/ Last("lowercase")

make_utf8_umlauts_uppercase ==
    While("uppercase") \/ Iterate("uppercase") \/ Last("uppercase")

make_utf8_umlauts_to_ascii ==
    While("to_ascii") \/ Iterate("to_ascii")

make_utf8_umlauts_to_lowercase_ascii ==
    \/ While("to_lowercase_ascii")
    \/ Iterate("to_lowercase_ascii")
    \/ Last("to_lowercase_ascii")

make_utf8_umlauts_to_uppercase_ascii ==
    \/ While("to_uppercase_ascii")
    \/ Iterate("to_uppercase_ascii")
    \/ Last("to_uppercase_ascii")

Next ==
    \/ make_utf8_umlauts_lowercase
    \/ make_utf8_umlauts_uppercase
    \/ make_utf8_umlauts_to_ascii
    \/ make_utf8_umlauts_to_lowercase_ascii
    \/ make_utf8_umlauts_to_uppercase_ascii

Spec == Init /\ [][Next]_vars

\* A call that has started runs on: it is never suspended.
FairSpec == Spec /\ WF_vars(Next)

Returned == pc = "done"

\* The step-by-step call and the whole-call operator agree.
RunAgrees == Returned => Run(op, input) = Result("returned", buf)

-----------------------------------------------------------------------------
(* The properties.                                                          *)

NonEmpty == Len(input) >= 1

\* What the properties call supported text.
AsciiUmlautText == Decodes(input, AsciiChars \cup Umlauts)
SupportedText == Decodes(input, AsciiChars \cup Umlauts \cup SharpS)
SupportedOrCapitalSharpS ==
    Decodes(input, AsciiChars \cup Umlauts \cup SharpS \cup CapitalSharpS)

Byte == 0 .. 255

\* The expected image of supported text x under a mapping of its bytes:
\* pair[t] is what replaces the pair 0xC3 t, single[c] every other byte.
Expected(x, pair, single) ==
    [k \in 1 .. Len(x) |->
        IF x[k] = \hC3 THEN pair[x[k + 1]][1]
        ELSE IF k > 1 /\ x[k - 1] = \hC3 THEN pair[x[k]][2]
        ELSE single[x[k]]]

Unchanged == [c \in Byte |-> c]
Lowered == [c \in Byte |-> IF c >= \h41 /\ c <= \h5A THEN c + 32 ELSE c]
Raised == [c \in Byte |-> IF c >= \h61 /\ c <= \h7A THEN c - 32 ELSE c]

\* DIN 5007-2, keeping the case of the first letter.
Digraph ==
    [t \in Byte |->
        CASE t = \hA4 -> <<97, 101>>     \* ae
          [] t = \hB6 -> <<111, 101>>    \* oe
          [] t = \hBC -> <<117, 101>>    \* ue
          [] t = \h84 -> <<65, 101>>     \* Ae
          [] t = \h96 -> <<79, 101>>     \* Oe
          [] t = \h9C -> <<85, 101>>     \* Ue
          [] t = \h9F -> <<115, 115>>    \* ss
          [] OTHER    -> <<\hC3, t>>]

LowerDigraph == [t \in Byte |-> <<Lowered[Digraph[t][1]], Lowered[Digraph[t][2]]>>]
UpperDigraph == [t \in Byte |-> <<Raised[Digraph[t][1]], Raised[Digraph[t][2]]>>]

\* The case partner of an umlaut: only the trailing byte changes.
LowerUmlaut ==
    [t \in Byte |->
        <<\hC3, CASE t = \h84 -> \hA4 [] t = \h96 -> \hB6 [] t = \h9C -> \hBC
                  [] OTHER -> t>>]
UpperUmlaut ==
    [t \in Byte |->
        <<\hC3, CASE t = \hA4 -> \h84 [] t = \hB6 -> \h96 [] t = \hBC -> \h9C
                  [] OTHER -> t>>]

\* C1: on non-empty text of ASCII, the seven supported code points and
\* uppercase sharp s, make_utf8_umlauts_to_ascii does not panic and returns
\* with every pair overwritten by its digraph (ae oe ue Ae Oe Ue ss) and every
\* other byte, the three bytes of uppercase sharp s included, unchanged.
C1_ToAsciiTransliterates ==
    (op = "to_ascii" /\ NonEmpty /\ SupportedOrCapitalSharpS) =>
        /\ pc # "panicked"
        /\ Returned => buf = Expected(input, Digraph, Unchanged)

C1_Witness ==
    /\ op = "to_ascii" /\ Returned
    /\ input = <<\hC3, \h84, \hE1, \hBA, \h9E, \hC3, \h9F>>
    /\ buf = <<\h41, \h65, \hE1, \hBA, \h9E, \h73, \h73>>

\* C2: on non-empty text of ASCII and the seven supported code points,
\* make_utf8_umlauts_lowercase returns with A..Z rewritten to a..z (the last
\* byte included), the trailing byte of each uppercase umlaut rewritten to
\* that of its lowercase partner, and every other byte (every 0xC3, both
\* bytes of sharp s) unchanged; make_utf8_umlauts_uppercase is the mirror.
C2_CaseFold ==
    (op \in {"lowercase", "uppercase"} /\ NonEmpty /\ SupportedText) =>
        /\ pc # "panicked"
        /\ (op = "lowercase" /\ Returned) =>
               buf = Expected(input, LowerUmlaut, Lowered)
        /\ (op = "uppercase" /\ Returned) =>
               buf = Expected(input, UpperUmlaut, Raised)

C2_Witness ==
    /\ op = "lowercase" /\ Returned
    /\ input = <<\hC3, \h9C, \hC3, \h9F, \h41>>
    /\ buf = <<\hC3, \hBC, \hC3, \h9F, \h61>>

\* C3: on non-empty text of ASCII, the seven supported code points and
\* uppercase sharp s, make_utf8_umlauts_to_lowercase_ascii returns with every
\* pair replaced by its lowercase digraph (ae oe ue ss, whatever the case of
\* the umlaut) and every ASCII letter lowercased, the last byte included;
\* make_utf8_umlauts_to_uppercase_ascii is the mirror (AE OE UE SS); the bytes
\* of uppercase sharp s and the non-letters are unchanged.
C3_FoldAndTransliterate ==
    (/\ op \in {"to_lowercase_ascii", "to_uppercase_ascii"}
     /\ NonEmpty /\ SupportedOrCapitalSharpS) =>
        /\ pc # "panicked"
        /\ (op = "to_lowercase_ascii" /\ Returned) =>
               buf = Expected(input, LowerDigraph, Lowered)
        /\ (op = "to_uppercase_ascii" /\ Returned) =>
               buf = Expected(input, UpperDigraph, Raised)

C3_Witness ==
    /\ op = "to_uppercase_ascii" /\ Returned
    /\ input = <<\hC3, \hA4, \hE1, \hBA, \h9E, \h7A>>
    /\ buf = <<\h41, \h45, \hE1, \hBA, \h9E, \h5A>>

\* C4: called on an empty buffer, each of the five methods returns without a
\* panic and leaves the buffer empty.
C4_EmptyBufferReturns ==
    Len(input) = 0 => pc # "panicked" /\ buf = << >>

\* C5: on every non-empty buffer make_utf8_umlauts_to_ascii terminates, also
\* when a 0xC3 is followed by a byte outside the replacement table and then by
\* two or more bytes.
C5_ToAsciiTerminates ==
    (op = "to_ascii" /\ NonEmpty) => <>(pc \in {"done", "panicked"})

\* C6: on every buffer of one or more arbitrary bytes, no method panics on an
\* index and every index a step reads or writes lies in 0 .. len - 1.
C6_IndicesInBounds ==
    NonEmpty => /\ pc # "panicked"
                /\ touched \subseteq 0 .. Len(buf) - 1

C6_Witness ==
    /\ NonEmpty
    /\ At(input, Len(input) - 1) = \hC3
    /\ pc = "loop"
    /\ Len(input) - 1 \in touched

\* C7: on non-empty text of ASCII and the seven supported code points, the
\* buffer each method returns with is valid UTF-8: every byte >= 0x80 belongs
\* to a unit 0xC3 xx with xx a continuation byte; after the three
\* transliterations it is pure ASCII.
Utf8Units == AsciiChars \cup {<<\hC3, t>> : t \in \h80 .. \hBF}

C7_Utf8Preserved ==
    (Returned /\ NonEmpty /\ SupportedText) =>
        /\ Decodes(buf, Utf8Units)
        /\ op \in {"to_ascii", "to_lowercase_ascii", "to_uppercase_ascii"} =>
               Decodes(buf, AsciiChars)

C7_Witness ==
    /\ Returned /\ op = "uppercase"
    /\ input = <<\hC3, \hB6, \hC3, \h9F>>
    /\ buf = <<\hC3, \h96, \hC3, \h9F>>

\* C8: on non-empty text of ASCII and the six umlauts (no sharp s),
\* make_utf8_umlauts_to_lowercase_ascii leaves the bytes that
\* make_utf8_umlauts_to_ascii followed by make_utf8_umlauts_lowercase leaves.
C8_LowercaseAsciiIsComposition ==
    (Returned /\ op = "to_ascii" /\ NonEmpty /\ AsciiUmlautText) =>
        /\ Run("lowercase", buf).status = "returned"
        /\ Run("lowercase", buf) = Run("to_lowercase_ascii", input)

C8_Witness ==
    /\ Returned /\ op = "to_ascii"
    /\ input = <<\hC3, \h84, \h41>>
    /\ buf = <<\h41, \h65, \h41>>
    /\ Run("lowercase", buf).buf = <<\h61, \h65, \h61>>

\* C9: on non-empty text of ASCII and the seven supported code points,
\* make_utf8_umlauts_uppercase after make_utf8_umlauts_lowercase leaves the
\* bytes make_utf8_umlauts_uppercase alone leaves, and symmetrically.
C9_FoldsConverge ==
    (Returned /\ NonEmpty /\ SupportedText) =>
        /\ op = "lowercase" =>
               /\ Run("uppercase", buf).status = "returned"
               /\ Run("uppercase", buf) = Run("uppercase", input)
        /\ op = "uppercase" =>
               /\ Run("lowercase", buf).status = "returned"
               /\ Run("lowercase", buf) = Run("lowercase", input)

C9_Witness ==
    /\ Returned /\ op = "lowercase"
    /\ input = <<\h41, \hC3, \h84, \h7A>>
    /\ buf = <<\h61, \hC3, \hA4, \h7A>>
    /\ Run("uppercase", buf).buf = <<\h41, \hC3, \h84, \h5A>>

\* C10: in make_utf8_umlauts_to_ascii, on every non-empty buffer, each loop
\* iteration leaves i strictly greater than it found it, and reads no byte at
\* or before one the iteration before it read.
C10_ForwardProgress ==
    [][(op = "to_ascii" /\ NonEmpty /\ pc = "body") =>
          /\ pc' = "loop" => i' > i
          /\ \A k \in touched' : \A j \in touched : k > j]_vars

=============================================================================
